---- MODULE Spec2Model ----
(***************************************************************************)
(* Verification model of the PNICER numerical utilities                    *)
(*   src/pnicer/utils.py        (older, monolithic module)                 *)
(*   src/pnicer/utils/gmm.py    (newer GMM module)                         *)
(* Every function is modelled for 1-D mixture models (the sampling code    *)
(* ravels means and covariances, so one feature is what the code expects). *)
(* Real numbers are exact rationals <<num, den>> in lowest terms.          *)
(***************************************************************************)
EXTENDS Integers, Sequences, FiniteSets, TLC

VARIABLES
    \* ---- gmm_scale --------------------------------------------------------
    heap,          \* numpy arrays: array id -> sequence of rationals
    gmm,           \* the input model object: attribute -> array id
    gmm_new,       \* the returned model object (NoObject before the call)
    gmm_before,    \* the input model's attribute values when the call started
    gmm_again,     \* the model a second call, on gmm_new, returned
    scale_impl,    \* which gmm_scale ran: "gmm" (utils/gmm.py) or "utils" (utils.py)
    scale_args,    \* the arguments of the call
    \* ---- mp_gmm ----------------------------------------------------------
    data,          \* the caller's list of data vectors (None entries are skipped)
    data_before,   \* the caller's list when mp_gmm was called
    n_components,  \* mp_gmm's component count per vector (0 stands for None)
    ndata_max,     \* the ndata_max argument of the call
    mg_pc,         \* "ready", "pool" (starmap running), "returned" or "raised"
    mg_impl,       \* which mp_gmm ran: "gmm" (utils/gmm.py) or "utils" (utils.py)
    mg_mode,       \* "sequential" or "parallel"
    next_chunk,    \* the pool's task queue: the next chunk to hand out
    running,       \* the chunks the worker processes are working on (at most NProc)
    value,         \* starmap's result slots, one per input item
    chunk_failed,  \* a chunk's task raised: starmap re-raises on return
    result,        \* the list mp_gmm returned
    fit_log,       \* per item what its fit did ("none": no fit was run)
    out_of_order,  \* some chunk finished before a chunk handed out earlier
    \* ---- mp_kde ----------------------------------------------------------
    grid,          \* the grid argument: [axes, pts]
    kde_data,      \* the data argument: [axes, pts]
    kde_args,      \* bandwidth, norm, absolute, sampling of the call
    kde_pc,        \* "ready", "pool", "returned" or "raised"
    grid_split,    \* np.array_split's sections of the grid
    kde_next,      \* the pool's task queue: the next section to hand out
    kde_running,   \* the sections the worker processes are working on
    kde_value,     \* starmap's result slots, one per section
    kde_order,     \* some section finished before a section handed out earlier
    mp_concat,     \* np.concatenate(mp) (line 406)
    kde_result,    \* the array mp_kde returned
    \* ---- combine_gmms ----------------------------------------------------
    gmms,          \* the gmms argument: [container, elems]
    weights,       \* the weights argument: Absent (None) or <<list>>
    cmb_pc,        \* "ready", "returned" or "raised"
    cmb_error,     \* the exception raised ("none" if none)
    gmm_combined,  \* the returned model's attribute values
    \* ---- get_color_covar -------------------------------------------------
    cc_args,       \* magerr1..magerr4 and name1..name4
    cc_pc,         \* "ready" or "returned"
    cmatrix,       \* the returned 2x2 matrix
    \* ---- weighted_avg ----------------------------------------------------
    values,        \* the values argument (entries may be NaN)
    wa_weights,    \* the weights argument (entries may be NaN)
    wa_pc,         \* "ready" or "returned"
    wa_result,     \* the returned [average, variance]
    \* ---- gmm_sample_xy ---------------------------------------------------
    sxy_gmm,       \* the model: means_ and covariances_
    sxy_args,      \* impl, caller, kappa, sampling, nmin, nmax
    sxy_pc,        \* "ready", "returned" or "raised"
    nsamples,      \* the value handed to np.linspace as num
    sxy_len,       \* len(xrange) of the returned arrays
    \* ---- gmm_confidence_interval_value -----------------------------------
    gmm_y,         \* the sampled densities; gmm_x[k] = k * GridStep
    ci_value,      \* the value argument, in the units of gmm_x
    level,         \* the level argument, in the units of the integral
    ci_pc,         \* "ready", "loop", "chosen" or "returned"
    ci_i,          \* the loop variable i
    value_idx,     \* index of the sample closest to value
    lidx,          \* left index of the last iteration
    ridx,          \* right index of the last iteration
    integral,      \* lint + rint of the last iteration
    ci_result,     \* the returned (lo, hi)
    \* ---- gmm_components --------------------------------------------------
    gc_data,       \* the data argument: None or a vector
    gc_max,        \* the max_components argument
    gc_pc,         \* "ready" or "returned"
    gc_result,     \* the returned count (0 for None)
    \* ---- get_sample_covar ------------------------------------------------
    xi,            \* the xi argument (entries may be NaN or infinite)
    yi,            \* the yi argument
    sc_pc,         \* "ready", "returned" or "raised"
    sc_error,      \* the message of the ValueError raised: "size" or "nan"
    sc_result,     \* the returned covariance
    \* ---- data2header -----------------------------------------------------
    frame,         \* the frame argument, a sequence of characters
    proj_code,     \* the proj_code argument, a sequence of characters
    dh_pc,         \* "ready", "returned" or "raised"
    dh_error,      \* the exception raised
    header         \* CTYPE1, CTYPE2 and COORDSYS of the returned header

varsScale == <<heap, gmm, gmm_new, gmm_before, gmm_again, scale_impl, scale_args>>
varsGmm == <<data, data_before, n_components, ndata_max, mg_pc, mg_impl, mg_mode,
             next_chunk, running, value, chunk_failed, result, fit_log, out_of_order>>

varsKde == <<grid, kde_data, kde_args, kde_pc, grid_split, kde_next, kde_running,
             kde_value, kde_order, mp_concat, kde_result>>

varsCombine == <<gmms, weights, cmb_pc, cmb_error, gmm_combined>>

varsColor == <<cc_args, cc_pc, cmatrix>>
varsAvg == <<values, wa_weights, wa_pc, wa_result>>

varsSample == <<sxy_gmm, sxy_args, sxy_pc, nsamples, sxy_len>>
varsCI == <<gmm_y, ci_value, level, ci_pc, ci_i, value_idx, lidx, ridx, integral, ci_result>>
varsComp == <<gc_data, gc_max, gc_pc, gc_result>>
varsCovar == <<xi, yi, sc_pc, sc_error, sc_result>>
varsHeader == <<frame, proj_code, dh_pc, dh_error, header>>

vars == <<varsScale, varsGmm, varsKde, varsCombine, varsColor, varsAvg, varsSample, varsCI,
          varsComp, varsCovar, varsHeader>>

\* a step of one function leaves the variables of the others alone
Frame(own) ==
    /\ IF own = "scale" THEN TRUE ELSE UNCHANGED varsScale
    /\ IF own = "gmm" THEN TRUE ELSE UNCHANGED varsGmm
    /\ IF own = "kde" THEN TRUE ELSE UNCHANGED varsKde
    /\ IF own = "combine" THEN TRUE ELSE UNCHANGED varsCombine
    /\ IF own = "color" THEN TRUE ELSE UNCHANGED varsColor
    /\ IF own = "avg" THEN TRUE ELSE UNCHANGED varsAvg
    /\ IF own = "sample" THEN TRUE ELSE UNCHANGED varsSample
    /\ IF own = "ci" THEN TRUE ELSE UNCHANGED varsCI
    /\ IF own = "comp" THEN TRUE ELSE UNCHANGED varsComp
    /\ IF own = "covar" THEN TRUE ELSE UNCHANGED varsCovar
    /\ IF own = "header" THEN TRUE ELSE UNCHANGED varsHeader

\* an optional argument that was not given (Python's None default)
Absent == <<>>
\* IEEE not-a-number, kept apart from every rational
NaN == <<0, 0>>

(***************************************************************************)
(* Bounds of the model.                                                    *)
(***************************************************************************)
MaxComp == 2          \* components of an input mixture model
MaxMean == 2          \* component means are integers in -1..MaxMean
MaxPts == 2           \* points of a data vector
MaxItems == 2         \* leading entries of a data list that are chosen freely
NProc == 2            \* worker processes of a Pool() (the machine's CPU count)
MaxGrid == 3          \* points of a KDE grid
MaxModels == 2        \* mixture models handed to combine_gmms
MaxVals == 3          \* entries of the arrays handed to weighted_avg
MaxSamples == 4       \* sample points of the grid the confidence interval walks
MaxDensity == 1       \* largest sampled density, in integer units
MaxLength == 80       \* points of a vector handed to gmm_components
MaxComponents == 4    \* largest max_components handed to gmm_components
MaxCovar == 2         \* entries of an array handed to get_sample_covar

(***************************************************************************)
(* Exact rational arithmetic (the model's real numbers).                   *)
(***************************************************************************)
Abs(n) == IF n < 0 THEN -n ELSE n

RECURSIVE GCD(_, _)
GCD(a, b) == IF b = 0 THEN a ELSE GCD(b, a % b)

Rat(n, d) ==
    LET g == GCD(Abs(n), Abs(d))
        s == IF d < 0 THEN -1 ELSE 1
    IN  <<(s * n) \div g, (s * d) \div g>>

RInt(n) == <<n, 1>>
RAdd(a, b) == Rat(a[1] * b[2] + b[1] * a[2], a[2] * b[2])
RSub(a, b) == Rat(a[1] * b[2] - b[1] * a[2], a[2] * b[2])
RMul(a, b) == Rat(a[1] * b[1], a[2] * b[2])
RDiv(a, b) == Rat(a[1] * b[2], a[2] * b[1])
RNeg(a) == <<-a[1], a[2]>>
RLess(a, b) == a[1] * b[2] < b[1] * a[2]
ISqrt(n) == CHOOSE k \in 0..n : k * k = n
RSqrt(a) == <<ISqrt(a[1]), ISqrt(a[2])>>

MapSeq(Op(_), s) == [i \in 1..Len(s) |-> Op(s[i])]

RECURSIVE RSum(_)
RSum(s) == IF s = <<>> THEN RInt(0) ELSE RAdd(s[1], RSum(Tail(s)))

(***************************************************************************)
(* gmm_scale.  A model object holds references to numpy arrays; an         *)
(* assignment `a.x = b.x` shares the array, `b.x + c` allocates a new one, *)
(* and `a.x /= c`, `a.x *= c` write into the array that a.x refers to.     *)
(***************************************************************************)
Attrs == {"weights_", "means_", "covariances_", "precisions_", "precisions_cholesky_"}

\* no model object yet
NoObject == [a \in Attrs |-> 0]

\* numpy: a new array holding `val`; its id is the next free one
Alloc(h, val) == Append(h, val)
NewId(h) == Len(h) + 1

\* `a.x -= c` in the place of `a.x /= c`
InPlaceSub(h, id, c) == [h EXCEPT ![id] = MapSeq(LAMBDA x : RSub(x, c), h[id])]

\* numpy in-place operators: they write into the array `id` refers to
InPlaceDiv(h, id, c) == [h EXCEPT ![id] = [i \in 1..Len(h[id]) |-> RDiv(h[id][i], c)]]
InPlaceMul(h, id, c) == [h EXCEPT ![id] = [i \in 1..Len(h[id]) |-> RMul(h[id][i], c)]]

\* the values a model object's attributes hold
Values(h, obj) == [a \in Attrs |-> h[obj[a]]]

\* the weight vectors of a fitted mixture of k components (positive, summing to
\* 1): the uniform one and one that favours the first component
WeightVectors(k) ==
    {[i \in 1..k |-> Rat(1, k)],
     [i \in 1..k |-> IF i = 1 THEN Rat(k + 1, 2 * k) ELSE Rat(1, 2 * k)]}

Variances == {RInt(1), RInt(4)}
MeanValues == {RInt(m) : m \in -1..MaxMean}

\* a fitted GaussianMixture: precisions = 1/covariances, cholesky = sqrt(precisions)
FittedModels ==
    UNION {
        {[weights_ |-> w, means_ |-> m, covariances_ |-> c,
          precisions_ |-> MapSeq(LAMBDA x : RDiv(RInt(1), x), c),
          precisions_cholesky_ |-> MapSeq(LAMBDA x : RSqrt(RDiv(RInt(1), x)), c)] :
            w \in WeightVectors(k), m \in [1..k -> MeanValues], c \in [1..k -> Variances]}
        : k \in 1..MaxComp }

ShiftValues == {Absent, RInt(0), RInt(1)}
ScaleValues == {Absent, RInt(1), RInt(2)}

\* utils/gmm.py line 50: gmm.means_ + shift if shift is not None else gmm.means_
ShiftMeans(h, obj, shift) ==
    IF shift # Absent
    THEN [h |-> Alloc(h, MapSeq(LAMBDA x : RAdd(x, shift), h[obj.means_])), id |-> NewId(h)]
    ELSE [h |-> h, id |-> obj.means_]

\* lines 56-59 with the input's precisions handed on although scale is given
ScaleCovariancesStalePrecisions(h, obj, scale) ==
    IF scale # Absent
    THEN LET c == MapSeq(LAMBDA x : RDiv(x, RMul(scale, scale)), h[obj.covariances_])
         IN  [h |-> Alloc(h, c), cov |-> NewId(h), prec |-> obj.precisions_,
              chol |-> obj.precisions_cholesky_]
    ELSE [h |-> h, cov |-> obj.covariances_, prec |-> obj.precisions_,
          chol |-> obj.precisions_cholesky_]

\* utils/gmm.py lines 56-59: new arrays when scale is given, the input's otherwise
ScaleCovariances(h, obj, scale) ==
    IF scale # Absent
    THEN LET c == MapSeq(LAMBDA x : RDiv(x, RMul(scale, scale)), h[obj.covariances_])
             p == MapSeq(LAMBDA x : RDiv(RInt(1), x), c)
             l == MapSeq(RSqrt, p)
             h1 == Alloc(h, c)
             h2 == Alloc(h1, p)
             h3 == Alloc(h2, l)
         IN  [h |-> h3, cov |-> NewId(h), prec |-> NewId(h1), chol |-> NewId(h2)]
    ELSE [h |-> h, cov |-> obj.covariances_, prec |-> obj.precisions_,
          chol |-> obj.precisions_cholesky_]

\* utils/gmm.py gmm_scale, the whole function
GmmScaleNew(h, obj, shift, scale, reverse) ==
    LET s1 == ShiftMeans(h, obj, shift)
        h2 == IF scale # Absent
              THEN InPlaceDiv(s1.h, s1.id, scale)
              ELSE s1.h
        s3 == ScaleCovariances(h2, obj, scale)
        h4 == IF reverse THEN InPlaceMul(s3.h, s1.id, RInt(-1)) ELSE s3.h
    IN  [h |-> h4,
         obj |-> [weights_ |-> obj.weights_, means_ |-> s1.id, covariances_ |-> s3.cov,
                  precisions_ |-> s3.prec, precisions_cholesky_ |-> s3.chol]]

\* utils.py gmm_scale: shift and scale default to 0.0 and 1.0 and are always applied
GmmScaleOld(h, obj, shift, scale, reverse) ==
    LET sh == IF shift = Absent THEN RInt(0) ELSE shift
        sc == IF scale = Absent THEN RInt(1) ELSE scale
        h1 == Alloc(h, MapSeq(LAMBDA x : RAdd(x, sh), h[obj.means_]))
        mid == NewId(h)
        h2 == InPlaceDiv(h1, mid, sc)
        h3 == IF reverse THEN InPlaceMul(h2, mid, RInt(-1)) ELSE h2
        s4 == ScaleCovariances(h3, obj, sc)
    IN  [h |-> s4.h,
         obj |-> [weights_ |-> obj.weights_, means_ |-> mid, covariances_ |-> s4.cov,
                  precisions_ |-> s4.prec, precisions_cholesky_ |-> s4.chol]]

gmm_scale(impl, shift, scale, reverse) ==
    /\ gmm_new = NoObject
    /\ LET r == IF impl = "gmm" THEN GmmScaleNew(heap, gmm, shift, scale, reverse)
                ELSE GmmScaleOld(heap, gmm, shift, scale, reverse)
       IN  /\ heap' = r.h
           /\ gmm_new' = r.obj
    /\ scale_impl' = impl
    /\ scale_args' = [shift |-> shift, scale |-> scale, reverse |-> reverse]
    /\ UNCHANGED <<gmm, gmm_before, gmm_again>>
    /\ Frame("scale")

\* the caller hands the returned model to gmm_scale once more, same arguments
gmm_scale_again ==
    /\ gmm_new # NoObject
    /\ gmm_again = NoObject
    /\ LET r == IF scale_impl = "gmm"
                THEN GmmScaleNew(heap, gmm_new, scale_args.shift, scale_args.scale,
                                 scale_args.reverse)
                ELSE GmmScaleOld(heap, gmm_new, scale_args.shift, scale_args.scale,
                                 scale_args.reverse)
       IN  /\ heap' = r.h
           /\ gmm_again' = r.obj
    /\ UNCHANGED <<gmm, gmm_new, gmm_before, scale_impl, scale_args>>
    /\ Frame("scale")

(***************************************************************************)
(* mp_gmm.  A data vector is a sequence of points; a fit is sklearn's      *)
(* GaussianMixture(...).fit, whose outcome (converged, not converged, or a *)
(* ValueError) the model leaves open for every vector.                     *)
(***************************************************************************)
NoneItem == [none |-> TRUE, pts |-> <<>>]
Vector(n) == [none |-> FALSE, pts |-> [i \in 1..n |-> i]]
Items == {NoneItem} \cup {Vector(n) : n \in 1..MaxPts}

\* the length above which mp_gmm uses the process pool
ParallelMin == 100
\* gmm_components' default n_per_component
n_per_component == 20

FitOutcomes == {"conv", "noconv", "error"}

\* result entries
NoneResult == [kind |-> "None", converged |-> FALSE, X |-> <<>>, n |-> 0]
NaNResult == [kind |-> "NaN", converged |-> FALSE, X |-> <<>>, n |-> 0]
Unset == [kind |-> "unset", converged |-> FALSE, X |-> <<>>, n |-> 0]
Raised == [kind |-> "raised", converged |-> FALSE, X |-> <<>>, n |-> 0]
Model(conv, item, n) == [kind |-> "model", converged |-> conv, X |-> item.pts, n |-> n]

\* np.round(x / q, decimals=0) for integers x >= 0, q > 0: round half to even
RoundHalfEven(x, q) ==
    LET f == x \div q
        r == 2 * (x % q)
    IN  IF r < q THEN f
        ELSE IF r > q THEN f + 1
        ELSE IF f % 2 = 0 THEN f ELSE f + 1

\* gmm_components without its line 364
GmmComponentsNoFloor(item, max_components) ==
    IF item.none THEN 0
    ELSE LET n0 == RoundHalfEven(Len(item.pts), n_per_component)
         IN  IF n0 > max_components THEN max_components ELSE n0

\* gmm_components(data, max_components); 0 stands for the None it returns for None
gmm_components(item, max_components) ==
    IF item.none THEN 0
    ELSE LET n0 == RoundHalfEven(Len(item.pts), n_per_component)
             n1 == IF n0 > max_components THEN max_components ELSE n0
         IN  IF n1 < 1 THEN 1 ELSE n1

\* np.random.choice(n, size=k, replace=False): k pairwise distinct indices
Choices(n, k) == {c \in [1..k -> 1..n] : \A a, b \in 1..k : a # b => c[a] # c[b]}

\* the entries mp_gmm subsamples (lines 412-415)
TooLong(d, nmax) ==
    IF nmax = Absent THEN {}
    ELSE {i \in 1..Len(d) : ~d[i].none /\ Len(d[i].pts) > nmax[1]}

\* the subsampling loop without its line 417
SubsampleKeepsAll(d, nmax, picks) == d

\* data[idx] = data[idx][ridx] for every entry that is too long
Subsample(d, nmax, picks) ==
    [i \in 1..Len(d) |->
        IF i \in DOMAIN picks
        THEN [d[i] EXCEPT !.pts = [j \in 1..nmax[1] |-> d[i].pts[picks[i][j]]]]
        ELSE d[i]]

\* utils/gmm.py _mp_gmm: one item, with what its fit did
MpGmmNew(item, n, outcome) ==
    IF item.none THEN NoneResult
    ELSE IF outcome = "error" THEN Raised
    ELSE IF outcome = "conv" THEN Model(TRUE, item, n)
    ELSE NoneResult

\* utils.py _mp_gmm: a ValueError of the fit (fit(X=None) raises one) gives NaN
MpGmmOld(item, n, outcome) ==
    IF item.none \/ outcome = "error" THEN NaNResult
    ELSE IF outcome = "conv" THEN Model(TRUE, item, n)
    ELSE NaNResult

\* utils/gmm.py lines 428-429: the list comprehension's element
FitInline(item, n, outcome) ==
    IF item.none THEN NoneResult
    ELSE IF outcome = "error" THEN Raised
    ELSE Model(outcome = "conv", item, n)

\* multiprocessing.Pool.starmap: the items are cut into chunks of
\* ceil(len / (4 * processes)) items, one task per chunk
ChunkSize(len) ==
    IF len = 0 THEN 0
    ELSE (len \div (NProc * 4)) + (IF len % (NProc * 4) = 0 THEN 0 ELSE 1)
NChunks(len) ==
    IF len = 0 THEN 0 ELSE (len + ChunkSize(len) - 1) \div ChunkSize(len)
ChunkLo(len, c) == (c - 1) * ChunkSize(len) + 1
ChunkHi(len, c) == IF c * ChunkSize(len) < len THEN c * ChunkSize(len) ELSE len

\* mutant of StoreChunk: results are appended in the order the chunks finish
StoreChunkInFinishOrder(val, c, r) ==
    LET lo == ChunkLo(Len(val), c)
        hi == ChunkHi(Len(val), c)
        ndone == Cardinality({k \in 1..Len(val) : val[k] # Unset})
    IN  [k \in 1..Len(val) |->
            IF ndone < k /\ k <= ndone + (hi - lo + 1) THEN r[lo + k - ndone - 1]
            ELSE val[k]]

\* MapResult._set: chunk c's results r go to the chunk's own slots of the list
StoreChunk(val, c, r) ==
    [k \in 1..Len(val) |->
        IF ChunkLo(Len(val), c) <= k /\ k <= ChunkHi(Len(val), c) THEN r[k] ELSE val[k]]

Fitted(d, idx) == {i \in idx : ~d[i].none}

\* a list comprehension or a chunk's loop stops at the first fit that raises
Reached(oc, i) == \A j \in DOMAIN oc : oc[j] = "error" => i <= j

\* mp_gmm of utils/gmm.py: component counts, subsampling, then either the pool
\* or the list comprehension
mp_gmm(max_components, parallel, nmax) ==
    /\ mg_pc = "ready"
    /\ n_components' = [i \in 1..Len(data) |-> gmm_components(data[i], max_components)]
    /\ ndata_max' = nmax
    /\ mg_impl' = "gmm"
    /\ \E picks \in [TooLong(data, nmax) -> UNION {Choices(MaxPts, k) : k \in 0..MaxPts}] :
         /\ \A i \in TooLong(data, nmax) : picks[i] \in Choices(Len(data[i].pts), nmax[1])
         /\ data' = Subsample(data, nmax, picks)
    /\ IF Len(data) > ParallelMin /\ parallel
       THEN /\ mg_pc' = "pool"
            /\ mg_mode' = "parallel"
            /\ value' = [i \in 1..Len(data) |-> Unset]
            /\ fit_log' = [i \in 1..Len(data) |-> "none"]
            /\ UNCHANGED <<next_chunk, running, chunk_failed, result>>
       ELSE /\ mg_mode' = "sequential"
            /\ \E oc \in [Fitted(data, 1..Len(data)) -> FitOutcomes] :
                 LET r == [i \in 1..Len(data) |->
                             FitInline(data'[i], n_components'[i],
                                       IF data[i].none THEN "conv" ELSE oc[i])]
                 IN  /\ fit_log' = [i \in 1..Len(data) |->
                                       IF data[i].none \/ ~Reached(oc, i) THEN "none"
                                       ELSE oc[i]]
                     /\ IF \E i \in 1..Len(data) : r[i] = Raised
                        THEN /\ mg_pc' = "raised"
                             /\ UNCHANGED result
                        ELSE /\ mg_pc' = "returned"
                             /\ result' = r
            /\ UNCHANGED <<next_chunk, running, chunk_failed, value>>
    /\ UNCHANGED <<data_before, out_of_order>>
    /\ Frame("gmm")

\* mp_gmm of utils.py: always the pool, no component counts, no subsampling
mp_gmm_old ==
    /\ mg_pc = "ready"
    /\ mg_impl' = "utils"
    /\ mg_mode' = "parallel"
    /\ mg_pc' = "pool"
    /\ value' = [i \in 1..Len(data) |-> Unset]
    /\ fit_log' = [i \in 1..Len(data) |-> "none"]
    /\ UNCHANGED <<data, data_before, n_components, ndata_max, next_chunk, running,
                   chunk_failed, result, out_of_order>>
    /\ Frame("gmm")

\* an idle worker process takes the next chunk from the task queue
PoolTake ==
    /\ mg_pc = "pool"
    /\ Cardinality(running) < NProc
    /\ next_chunk <= NChunks(Len(data))
    /\ running' = running \cup {next_chunk}
    /\ next_chunk' = next_chunk + 1
    /\ UNCHANGED <<data, data_before, n_components, ndata_max, mg_pc, mg_impl, mg_mode,
                   value, chunk_failed, result, fit_log, out_of_order>>
    /\ Frame("gmm")

\* a worker process finishes its chunk: _mp_gmm on each item, results to the parent
PoolFinish(c) ==
    /\ mg_pc = "pool"
    /\ c \in running
    /\ LET idx == ChunkLo(Len(data), c)..ChunkHi(Len(data), c)
       IN  \E oc \in [Fitted(data, idx) -> FitOutcomes] :
             LET r == [i \in idx |->
                         LET o == IF data[i].none THEN "conv" ELSE oc[i]
                         IN  IF mg_impl = "gmm"
                             THEN MpGmmNew(data[i], n_components[i], o)
                             ELSE MpGmmOld(data[i], 0, o)]
             IN  /\ fit_log' = [i \in 1..Len(data) |->
                                   IF i \notin idx THEN fit_log[i]
                                   ELSE IF mg_impl = "utils"
                                        THEN (IF data[i].none THEN "error" ELSE oc[i])
                                   ELSE IF data[i].none \/ ~Reached(oc, i) THEN "none"
                                   ELSE oc[i]]
                 /\ IF \E i \in idx : r[i] = Raised
                    THEN /\ chunk_failed' = TRUE
                         /\ value' = StoreChunk(value, c, [i \in idx |-> Raised])
                    ELSE /\ value' = StoreChunk(value, c, r)
                         /\ UNCHANGED chunk_failed
    /\ out_of_order' = (out_of_order \/ \E c2 \in running : c2 < c)
    /\ running' = running \ {c}
    /\ UNCHANGED <<data, data_before, n_components, ndata_max, mg_pc, mg_impl, mg_mode,
                   next_chunk, result>>
    /\ Frame("gmm")

\* starmap returns once every chunk is done: the list, or the first error re-raised
PoolJoin ==
    /\ mg_pc = "pool"
    /\ next_chunk > NChunks(Len(data))
    /\ running = {}
    /\ IF chunk_failed
       THEN /\ mg_pc' = "raised"
            /\ UNCHANGED result
       ELSE /\ mg_pc' = "returned"
            /\ result' = value
    /\ UNCHANGED <<data, data_before, n_components, ndata_max, mg_impl, mg_mode,
                   next_chunk, running, value, chunk_failed, fit_log, out_of_order>>
    /\ Frame("gmm")

(***************************************************************************)
(* mp_kde.  An array is [axes, pts]: the number of axes of its shape and    *)
(* its rows (one integer coordinate per row).  Densities are the            *)
(* Epanechnikov estimate in units of 3 / (4 n h^3).                         *)
(***************************************************************************)
RECURSIVE SumSeq(_)
SumSeq(q) == IF q = <<>> THEN 0 ELSE q[1] + SumSeq(Tail(q))

RECURSIVE Concat(_)
Concat(qs) == IF qs = <<>> THEN <<>> ELSE qs[1] \o Concat(Tail(qs))

\* kde.fit(data).score_samples(x), exponentiated: sum of max(0, h^2 - (x - xi)^2)
Density(pts, h, x) ==
    SumSeq([j \in 1..Len(pts) |->
              IF (x - pts[j]) * (x - pts[j]) < h * h
              THEN h * h - (x - pts[j]) * (x - pts[j]) ELSE 0])

\* _mp_kde: the densities of one section of the grid
MpKde(pts, h, section) == [j \in 1..Len(section) |-> Density(pts, h, section[j])]

\* mutant of ArraySplit: equal sections only, the remainder of the grid is dropped
ArraySplitNoRemainder(pts, n) ==
    LET each == Len(pts) \div n
    IN  [c \in 1..n |-> SubSeq(pts, (c - 1) * each + 1, c * each)]

\* np.array_split(grid, n, axis=0): n sections, the first len % n one row longer
ArraySplit(pts, n) ==
    LET each == Len(pts) \div n
        extras == Len(pts) % n
        start(c) == (c - 1) * each + (IF c - 1 < extras THEN c - 1 ELSE extras)
    IN  [c \in 1..n |-> SubSeq(pts, start(c) + 1, start(c + 1))]

\* numpy float division of every entry by d (0/0 is NaN; every entry is 0 when d = 0)
DivAll(q, d) == [j \in 1..Len(q) |-> IF d[1] = 0 \/ q[j] = NaN THEN NaN ELSE RDiv(q[j], d)]

RECURSIVE RMaxSeq(_)
RMaxSeq(q) ==
    IF Len(q) = 1 THEN q[1]
    ELSE LET m == RMaxSeq(Tail(q)) IN IF RLess(q[1], m) THEN m ELSE q[1]

\* lines 408-418: the absolute rescaling and the normalisation
PostProcess(mp, ndata, args) ==
    LET r0 == [j \in 1..Len(mp) |-> RInt(mp[j])]
        r1 == IF args.absolute
              THEN DivAll(r0, RDiv(RSum(r0), RMul(RInt(ndata), RInt(args.sampling[1]))))
              ELSE r0
        bad == r1 = <<>> \/ \E j \in 1..Len(r1) : r1[j] = NaN
    IN  IF args.norm = "none" \/ bad THEN r1
        ELSE IF args.norm = "max" THEN DivAll(r1, RMaxSeq(r1))
        ELSE IF args.norm = "mean" THEN DivAll(r1, RDiv(RSum(r1), RInt(Len(r1))))
        ELSE DivAll(r1, RSum(r1))

NoSlot == [done |-> FALSE, arr |-> <<>>]

\* mp_kde without the check of lines 387-388
MpKdeNoAxesCheck(bandwidth, norm, absolute, sampling) ==
    /\ kde_pc = "ready"
    /\ kde_args' = [bandwidth |-> bandwidth, norm |-> norm, absolute |-> absolute,
                    sampling |-> sampling]
    /\ IF absolute /\ (sampling = Absent \/ sampling = <<0>>)
       THEN /\ kde_pc' = "raised"
            /\ UNCHANGED <<grid_split, kde_value>>
       ELSE /\ kde_pc' = "pool"
            /\ grid_split' = ArraySplit(grid.pts, NProc)
            /\ kde_value' = [c \in 1..NProc |-> NoSlot]
    /\ UNCHANGED <<grid, kde_data, kde_next, kde_running, kde_order, mp_concat, kde_result>>
    /\ Frame("kde")

\* mp_kde up to the start of the pool: the two checks, the split, the tasks
mp_kde(bandwidth, norm, absolute, sampling) ==
    /\ kde_pc = "ready"
    /\ kde_args' = [bandwidth |-> bandwidth, norm |-> norm, absolute |-> absolute,
                    sampling |-> sampling]
    /\ IF (absolute /\ (sampling = Absent \/ sampling = <<0>>)) \/ grid.axes # kde_data.axes
       THEN /\ kde_pc' = "raised"
            /\ UNCHANGED <<grid_split, kde_value>>
       ELSE /\ kde_pc' = "pool"
            /\ grid_split' = ArraySplit(grid.pts, NProc)
            /\ kde_value' = [c \in 1..NProc |-> NoSlot]
    /\ UNCHANGED <<grid, kde_data, kde_next, kde_running, kde_order, mp_concat, kde_result>>
    /\ Frame("kde")

\* an idle worker process takes the next task (starmap's chunks hold one section
\* each: ChunkSize(NProc) = 1)
KdeTake ==
    /\ kde_pc = "pool"
    /\ Cardinality(kde_running) < NProc
    /\ kde_next <= NChunks(Len(grid_split))
    /\ kde_running' = kde_running \cup {kde_next}
    /\ kde_next' = kde_next + 1
    /\ UNCHANGED <<grid, kde_data, kde_args, kde_pc, grid_split, kde_value, kde_order,
                   mp_concat, kde_result>>
    /\ Frame("kde")

\* a worker process finishes its task: _mp_kde on its sections
KdeFinish(c) ==
    /\ kde_pc = "pool"
    /\ c \in kde_running
    /\ kde_value' = [k \in 1..Len(kde_value) |->
                       IF ChunkLo(Len(kde_value), c) <= k /\ k <= ChunkHi(Len(kde_value), c)
                       THEN [done |-> TRUE,
                             arr |-> MpKde(kde_data.pts, kde_args.bandwidth, grid_split[k])]
                       ELSE kde_value[k]]
    /\ kde_order' = (kde_order \/ \E c2 \in kde_running : c2 < c)
    /\ kde_running' = kde_running \ {c}
    /\ UNCHANGED <<grid, kde_data, kde_args, kde_pc, grid_split, kde_next, mp_concat,
                   kde_result>>
    /\ Frame("kde")

\* starmap returns; lines 405-421: concatenate, rescale, normalise, return
KdeJoin ==
    /\ kde_pc = "pool"
    /\ kde_next > NChunks(Len(grid_split))
    /\ kde_running = {}
    /\ mp_concat' = Concat([c \in 1..Len(kde_value) |-> kde_value[c].arr])
    /\ kde_result' = PostProcess(mp_concat', Len(kde_data.pts), kde_args)
    /\ kde_pc' = "returned"
    /\ UNCHANGED <<grid, kde_data, kde_args, grid_split, kde_next, kde_running, kde_value,
                   kde_order>>
    /\ Frame("kde")

(***************************************************************************)
(* combine_gmms.  The list elements are fitted models (their attribute     *)
(* values) or objects that are no GaussianMixture.                         *)
(***************************************************************************)
NotAModel == [isgmm |-> FALSE, weights_ |-> <<>>, means_ |-> <<>>, covariances_ |-> <<>>]
NoCombined == [weights_ |-> <<>>, means_ |-> <<>>, covariances_ |-> <<>>,
               precisions_ |-> <<>>, precisions_cholesky_ |-> <<>>]

\* numpy: every entry of q times the number w
ScaleAll(q, w) == [j \in 1..Len(q) |-> RMul(q[j], RInt(w))]

\* lines 500-503 with zip_longest in the place of zip: a model beyond the
\* weights is stacked with the weight 1
RECURSIVE StackFromAllModels(_, _, _, _)
StackFromAllModels(acc, elems, ws, i) ==
    IF i > Len(elems) THEN acc
    ELSE StackFromAllModels(
            [means |-> acc.means \o elems[i].means_,
             weights |-> acc.weights \o
                            ScaleAll(elems[i].weights_, IF i > Len(ws) THEN 1 ELSE ws[i]),
             variances |-> acc.variances \o elems[i].covariances_],
            elems, ws, i + 1)

\* lines 500-503: zip(gmms[1:], weights[1:]) pairs model i with weight i for
\* i = 2 .. min(len(gmms), len(weights)) and stacks its components
RECURSIVE StackFrom(_, _, _, _)
StackFrom(acc, elems, ws, i) ==
    IF i > Len(elems) \/ i > Len(ws) THEN acc
    ELSE StackFrom([means |-> acc.means \o elems[i].means_,
                    weights |-> acc.weights \o ScaleAll(elems[i].weights_, ws[i]),
                    variances |-> acc.variances \o elems[i].covariances_],
                   elems, ws, i + 1)

\* mutant of BuildComponents: the first model's weights are not scaled by weights[0]
BuildComponentsFirstUnscaled(elems, ws) ==
    StackFrom([means |-> elems[1].means_, weights |-> elems[1].weights_,
               variances |-> elems[1].covariances_], elems, ws, 2)

\* lines 498-503: gmm_means, gmm_variances, gmm_weights
BuildComponents(elems, ws) ==
    StackFrom([means |-> elems[1].means_,
               weights |-> ScaleAll(elems[1].weights_, ws[1]),
               variances |-> elems[1].covariances_], elems, ws, 2)

\* lines 505-510: the attributes of the combined model
Combined(b) ==
    [means_ |-> b.means,
     covariances_ |-> b.variances,
     weights_ |-> DivAll(b.weights, RSum(b.weights)),
     precisions_ |-> [j \in 1..Len(b.variances) |-> RDiv(RInt(1), b.variances[j])],
     precisions_cholesky_ |->
        [j \in 1..Len(b.variances) |-> RSqrt(RDiv(RInt(1), b.variances[j]))]]

\* combine_gmms without the check of lines 488-489: a non-model element has no
\* means_, so that building the components stops with an AttributeError
CombineGmmsNoElementCheck ==
    /\ cmb_pc = "ready"
    /\ LET ws == IF weights = Absent THEN [i \in 1..Len(gmms.elems) |-> 1]
                 ELSE weights[1]
       IN  IF gmms.container # "list"
           THEN cmb_error' = "ValueError" /\ cmb_pc' = "raised" /\ UNCHANGED gmm_combined
           ELSE IF gmms.elems = <<>> \/ ws = <<>>
           THEN cmb_error' = "IndexError" /\ cmb_pc' = "raised" /\ UNCHANGED gmm_combined
           ELSE IF \E i \in 1..Len(gmms.elems) : ~gmms.elems[i].isgmm
           THEN cmb_error' = "AttributeError" /\ cmb_pc' = "raised" /\ UNCHANGED gmm_combined
           ELSE /\ gmm_combined' = Combined(BuildComponents(gmms.elems, ws))
                /\ cmb_pc' = "returned"
                /\ UNCHANGED cmb_error
    /\ UNCHANGED <<gmms, weights>>
    /\ Frame("combine")

combine_gmms ==
    /\ cmb_pc = "ready"
    /\ LET ws == IF weights = Absent THEN [i \in 1..Len(gmms.elems) |-> 1]
                 ELSE weights[1]
       IN  IF gmms.container # "list"
           THEN cmb_error' = "ValueError" /\ cmb_pc' = "raised" /\ UNCHANGED gmm_combined
           ELSE IF \E i \in 1..Len(gmms.elems) : ~gmms.elems[i].isgmm
           THEN cmb_error' = "ValueError" /\ cmb_pc' = "raised" /\ UNCHANGED gmm_combined
           ELSE IF gmms.elems = <<>> \/ ws = <<>>
           THEN cmb_error' = "IndexError" /\ cmb_pc' = "raised" /\ UNCHANGED gmm_combined
           ELSE /\ gmm_combined' = Combined(BuildComponents(gmms.elems, ws))
                /\ cmb_pc' = "returned"
                /\ UNCHANGED cmb_error
    /\ UNCHANGED <<gmms, weights>>
    /\ Frame("combine")

(***************************************************************************)
(* get_color_covar and weighted_avg.                                       *)
(***************************************************************************)
\* np.mean of an array of integers
Mean(q) == Rat(SumSeq(q), Len(q))
Square(a) == RMul(a, a)

\* get_color_covar with every cross term added (lines 190 and 194 as +=)
ColorCovarAllAdded(a) ==
    LET m1 == Mean(a.magerr1)
        m2 == Mean(a.magerr2)
        m3 == Mean(a.magerr3)
        m4 == Mean(a.magerr4)
        c11 == RAdd(Square(m1), Square(m2))
        c22 == RMul(Square(m3), Square(m4))
        t1 == IF a.name1 = a.name3 THEN RMul(m1, m3) ELSE RInt(0)
        t2 == IF a.name1 = a.name4 THEN RMul(m1, m4) ELSE RInt(0)
        t3 == IF a.name2 = a.name3 THEN RMul(m2, m3) ELSE RInt(0)
        t4 == IF a.name2 = a.name4 THEN RMul(m2, m4) ELSE RInt(0)
        cov == RAdd(RAdd(RAdd(t1, t2), t3), t4)
    IN  <<<<c11, cov>>, <<cov, c22>>>>

\* utils.py get_color_covar, the whole function
ColorCovar(a) ==
    LET m1 == Mean(a.magerr1)
        m2 == Mean(a.magerr2)
        m3 == Mean(a.magerr3)
        m4 == Mean(a.magerr4)
        c11 == RAdd(Square(m1), Square(m2))
        c22 == RMul(Square(m3), Square(m4))
        t1 == IF a.name1 = a.name3 THEN RMul(m1, m3) ELSE RInt(0)
        t2 == IF a.name1 = a.name4 THEN RMul(m1, m4) ELSE RInt(0)
        t3 == IF a.name2 = a.name3 THEN RMul(m2, m3) ELSE RInt(0)
        t4 == IF a.name2 = a.name4 THEN RMul(m2, m4) ELSE RInt(0)
        cov == RAdd(RSub(RSub(t1, t2), t3), t4)
    IN  <<<<c11, cov>>, <<cov, c22>>>>

get_color_covar ==
    /\ cc_pc = "ready"
    /\ cmatrix' = ColorCovar(cc_args)
    /\ cc_pc' = "returned"
    /\ UNCHANGED cc_args
    /\ Frame("color")

\* IEEE arithmetic on rationals and NaN
FMul(a, b) == IF a = NaN \/ b = NaN THEN NaN ELSE RMul(a, b)
FSub(a, b) == IF a = NaN \/ b = NaN THEN NaN ELSE RSub(a, b)
FDiv(a, b) == IF a = NaN \/ b = NaN \/ b[1] = 0 THEN NaN ELSE RDiv(a, b)

\* np.nansum: NaN entries count as zero
RECURSIVE NanSum(_)
NanSum(q) ==
    IF q = <<>> THEN RInt(0)
    ELSE IF q[1] = NaN THEN NanSum(Tail(q))
    ELSE RAdd(q[1], NanSum(Tail(q)))

\* utils.py weighted_avg, the whole function
WeightedAvg(v, w) ==
    LET average == FDiv(NanSum([i \in 1..Len(v) |-> FMul(v[i], w[i])]), NanSum(w))
        variance ==
            FDiv(NanSum([i \in 1..Len(v) |->
                           FMul(FMul(FSub(v[i], average), FSub(v[i], average)), w[i])]),
                 NanSum(w))
    IN  [average |-> average, variance |-> variance]

weighted_avg ==
    /\ wa_pc = "ready"
    /\ wa_result' = WeightedAvg(values, wa_weights)
    /\ wa_pc' = "returned"
    /\ UNCHANGED <<values, wa_weights>>
    /\ Frame("avg")

(***************************************************************************)
(* gmm_sample_xy: the number of sample points.                             *)
(***************************************************************************)
RECURSIVE RMinSeq(_)
RMinSeq(q) ==
    IF Len(q) = 1 THEN q[1]
    ELSE LET m == RMinSeq(Tail(q)) IN IF RLess(m, q[1]) THEN m ELSE q[1]

\* qmin, qmax of utils/gmm.py (per-component ranges, lines 100-106)
QueryRangeNew(g, kappa) ==
    LET s == MapSeq(RSqrt, g.covariances_)
        k == Len(s)
    IN  <<RMinSeq([j \in 1..k |-> RSub(g.means_[j], RMul(RInt(kappa), s[j]))]),
          RMaxSeq([j \in 1..k |-> RAdd(g.means_[j], RMul(RInt(kappa), s[j]))])>>

\* qmin, qmax of utils.py (line 819)
QueryRangeOld(g, kappa) ==
    LET s == MapSeq(RSqrt, g.covariances_)
    IN  <<RSub(RMinSeq(g.means_), RMul(RInt(kappa), RMaxSeq(s))),
          RAdd(RMaxSeq(g.means_), RMul(RInt(kappa), RMaxSeq(s)))>>

\* nsamples = (qmax - qmin) / (np.min(s) / sampling)
RawSamples(g, a) ==
    LET q == IF a.impl = "gmm" THEN QueryRangeNew(g, a.kappa) ELSE QueryRangeOld(g, a.kappa)
        s == MapSeq(RSqrt, g.covariances_)
    IN  RDiv(RSub(q[2], q[1]), RDiv(RMinSeq(s), RInt(a.sampling)))

\* nsamples = 100 if nsamples < nmin else nsamples
BelowMin(n, nmin) == IF RLess(n, RInt(nmin)) THEN RInt(100) ELSE n
\* nsamples = 100000 if nsamples > nmax else nsamples
AboveMax(n, nmax) == IF RLess(RInt(nmax), n) THEN RInt(100000) ELSE n

\* int(x) of a non-negative float
Floor(r) == r[1] \div r[2]

\* np.linspace(num=nsamples): an int is taken as it is; a float is truncated by
\* the numpy releases that accept it and refused with TypeError by the others.
gmm_sample_xy(numpy) ==
    /\ sxy_pc = "ready"
    /\ LET raw == RawSamples(sxy_gmm, sxy_args)
           n == AboveMax(BelowMin(raw, sxy_args.nmin), sxy_args.nmax)
           is_int == RLess(raw, RInt(sxy_args.nmin)) \/
                     RLess(RInt(sxy_args.nmax), BelowMin(raw, sxy_args.nmin))
       IN  /\ nsamples' = n
           /\ IF is_int \/ numpy = "truncates"
              THEN sxy_pc' = "returned" /\ sxy_len' = Floor(n)
              ELSE sxy_pc' = "raised" /\ sxy_len' = 0
    /\ UNCHANGED <<sxy_gmm, sxy_args>>
    /\ Frame("sample")

(***************************************************************************)
(* gmm_confidence_interval_value.  The grid is equidistant, so positions   *)
(* are counted from gmm_x[0] in units of a quarter of the grid step; the   *)
(* densities and the level are integers in one common unit.                *)
(***************************************************************************)
GridStep == 4
gmm_x(k) == k * GridStep
Y(k) == gmm_y[k + 1]

\* np.argmin(np.abs(gmm_x - value)): the first index of the smallest distance
ArgMinDistance(n, v) ==
    CHOOSE k \in 0..(n - 1) :
        /\ \A j \in 0..(n - 1) : Abs(gmm_x(k) - v) <= Abs(gmm_x(j) - v)
        /\ \A j \in 0..(k - 1) : Abs(gmm_x(j) - v) > Abs(gmm_x(k) - v)

\* np.trapz(gmm_y[lo:hi], dx=dx): the slice holds the indices lo..hi-1
RECURSIVE PairSum(_, _)
PairSum(lo, hi) == IF hi - lo < 2 THEN 0 ELSE Y(lo) + Y(lo + 1) + PairSum(lo + 1, hi)
Trapz(lo, hi) == (GridStep * PairSum(lo, hi)) \div 2

\* lines 302-308: sample, dx, value_idx
ci_begin ==
    /\ ci_pc = "ready"
    /\ value_idx' = ArgMinDistance(Len(gmm_y), ci_value)
    /\ ci_i' = 0
    /\ ci_pc' = "loop"
    /\ UNCHANGED <<gmm_y, ci_value, level, lidx, ridx, integral, ci_result>>
    /\ Frame("ci")

\* one iteration of the loop with line 311 as `range(len(gmm_x) + 1)`
CiIterateOneMore ==
    /\ ci_pc = "loop"
    /\ LET n == Len(gmm_y)
           l == IF value_idx - ci_i >= 0 THEN value_idx - ci_i ELSE 0
           r == IF value_idx + ci_i < n THEN value_idx + ci_i ELSE n - 1
           lint == Trapz(l, value_idx)
           rint == Trapz(value_idx, r)
       IN  /\ lidx' = l
           /\ ridx' = r
           /\ integral' = lint + rint
           /\ IF lint + rint > level \/ ci_i = n
              THEN ci_pc' = "chosen" /\ ci_i' = ci_i
              ELSE ci_pc' = "loop" /\ ci_i' = ci_i + 1
    /\ UNCHANGED <<gmm_y, ci_value, level, value_idx, ci_result>>
    /\ Frame("ci")

\* one iteration of the loop with line 326 as `if integral >= level`
CiIterateBreakAtLevel ==
    /\ ci_pc = "loop"
    /\ LET n == Len(gmm_y)
           l == IF value_idx - ci_i >= 0 THEN value_idx - ci_i ELSE 0
           r == IF value_idx + ci_i < n THEN value_idx + ci_i ELSE n - 1
           lint == Trapz(l, value_idx)
           rint == Trapz(value_idx, r)
       IN  /\ lidx' = l
           /\ ridx' = r
           /\ integral' = lint + rint
           /\ IF lint + rint >= level \/ ci_i + 1 = n
              THEN ci_pc' = "chosen" /\ ci_i' = ci_i
              ELSE ci_pc' = "loop" /\ ci_i' = ci_i + 1
    /\ UNCHANGED <<gmm_y, ci_value, level, value_idx, ci_result>>
    /\ Frame("ci")

\* lines 311-327: one iteration of the loop
ci_iterate ==
    /\ ci_pc = "loop"
    /\ LET n == Len(gmm_y)
           l == IF value_idx - ci_i >= 0 THEN value_idx - ci_i ELSE 0
           r == IF value_idx + ci_i < n THEN value_idx + ci_i ELSE n - 1
           lint == Trapz(l, value_idx)
           rint == Trapz(value_idx, r)
       IN  /\ lidx' = l
           /\ ridx' = r
           /\ integral' = lint + rint
           /\ IF lint + rint > level \/ ci_i + 1 = n
              THEN ci_pc' = "chosen" /\ ci_i' = ci_i
              ELSE ci_pc' = "loop" /\ ci_i' = ci_i + 1
    /\ UNCHANGED <<gmm_y, ci_value, level, value_idx, ci_result>>
    /\ Frame("ci")

\* lines 331-334: the half size and the returned interval
ci_return ==
    /\ ci_pc = "chosen"
    /\ LET ci_half_size == IF value_idx - lidx > ridx - value_idx
                           THEN ci_value - gmm_x(lidx)
                           ELSE gmm_x(ridx) - ci_value
       IN  ci_result' = <<ci_value - ci_half_size, ci_value + ci_half_size>>
    /\ ci_pc' = "returned"
    /\ UNCHANGED <<gmm_y, ci_value, level, ci_i, value_idx, lidx, ridx, integral>>
    /\ Frame("ci")

(***************************************************************************)
(* gmm_components called on its own.                                       *)
(***************************************************************************)
gmm_components_call ==
    /\ gc_pc = "ready"
    /\ gc_result' = gmm_components(gc_data, gc_max)
    /\ gc_pc' = "returned"
    /\ UNCHANGED <<gc_data, gc_max>>
    /\ Frame("comp")

(***************************************************************************)
(* get_sample_covar.  Infinite entries are <<1, 0>> and <<-1, 0>>.         *)
(***************************************************************************)
PosInf == <<1, 0>>
NegInf == <<-1, 0>>
\* np.isfinite
IsFinite(v) == v[2] # 0
\* np.sum(~np.isfinite(q)) > 0
HasNonFinite(q) == \E i \in 1..Len(q) : ~IsFinite(q[i])

\* line 137 on finite arrays of one length; 0 / 0 is NaN for empty arrays
SampleCovar(x, y) ==
    IF Len(x) = 0 THEN NaN
    ELSE LET mx == RDiv(RSum(x), RInt(Len(x)))
             my == RDiv(RSum(y), RInt(Len(y)))
         IN  RDiv(RSum([i \in 1..Len(x) |-> RMul(RSub(x[i], mx), RSub(y[i], my))]),
                  RInt(Len(x)))

\* get_sample_covar with the check for NaNs ahead of the check of the sizes
GetSampleCovarNaNFirst(x, y) ==
    IF HasNonFinite(x) \/ HasNonFinite(y) THEN [error |-> "nan", value |-> Absent]
    ELSE IF Len(x) # Len(y) THEN [error |-> "size", value |-> Absent]
    ELSE [error |-> "none", value |-> SampleCovar(x, y)]

\* get_sample_covar, the whole function
GetSampleCovar(x, y) ==
    IF Len(x) # Len(y) THEN [error |-> "size", value |-> Absent]
    ELSE IF HasNonFinite(x) \/ HasNonFinite(y) THEN [error |-> "nan", value |-> Absent]
    ELSE [error |-> "none", value |-> SampleCovar(x, y)]

get_sample_covar ==
    /\ sc_pc = "ready"
    /\ LET r == GetSampleCovar(xi, yi)
       IN  /\ sc_error' = r.error
           /\ sc_result' = r.value
           /\ sc_pc' = IF r.error = "none" THEN "returned" ELSE "raised"
    /\ UNCHANGED <<xi, yi>>
    /\ Frame("covar")

(***************************************************************************)
(* data2header: the choice of the axis codes.  Strings are sequences of    *)
(* one-character strings.                                                  *)
(***************************************************************************)
UpperCase ==
    [c \in {"a", "c", "f", "g", "i", "k", "l", "r", "s", "t"} |->
        CASE c = "a" -> "A" [] c = "c" -> "C" [] c = "f" -> "F" [] c = "g" -> "G"
          [] c = "i" -> "I" [] c = "k" -> "K" [] c = "l" -> "L" [] c = "r" -> "R"
          [] c = "s" -> "S" [] c = "t" -> "T"]

\* str.lower() that leaves the string as it is
LowerKeepsCase(s) == s

\* str.lower(): every upper-case letter becomes its lower-case letter
Lower(s) ==
    [i \in 1..Len(s) |->
        IF \E c \in DOMAIN UpperCase : UpperCase[c] = s[i]
        THEN CHOOSE c \in DOMAIN UpperCase : UpperCase[c] = s[i]
        ELSE s[i]]

\* "{:->w}".format(code): code right-aligned in w columns, filled with "-"
RightAlign(code, w) ==
    IF Len(code) >= w THEN code ELSE [i \in 1..(w - Len(code)) |-> "-"] \o code

NoHeader == [ctype1 |-> <<>>, ctype2 |-> <<>>, coordsys |-> <<>>]

\* lines 617-629 and the header built from their result
data2header ==
    /\ dh_pc = "ready"
    /\ IF Lower(frame) = <<"i", "c", "r", "s">>
       THEN /\ header' = [ctype1 |-> <<"R", "A">> \o RightAlign(proj_code, 6),
                          ctype2 |-> <<"D", "E", "C">> \o RightAlign(proj_code, 5),
                          coordsys |-> <<"e", "q", "u">>]
            /\ dh_pc' = "returned"
            /\ UNCHANGED dh_error
       ELSE IF Lower(frame) = <<"g", "a", "l", "a", "c", "t", "i", "c">>
       THEN /\ header' = [ctype1 |-> <<"G", "L", "O", "N">> \o RightAlign(proj_code, 4),
                          ctype2 |-> <<"G", "L", "A", "T">> \o RightAlign(proj_code, 4),
                          coordsys |-> <<"g", "a", "l">>]
            /\ dh_pc' = "returned"
            /\ UNCHANGED dh_error
       ELSE /\ dh_error' = "ValueError"
            /\ dh_pc' = "raised"
            /\ UNCHANGED header
    /\ UNCHANGED <<frame, proj_code>>
    /\ Frame("header")

(***************************************************************************)
(* Specifications: one per function under study; the variables of the      *)
(* other functions rest at their idle values.                              *)
(***************************************************************************)
IdleScale ==
    /\ heap = <<>>
    /\ gmm = NoObject
    /\ gmm_new = NoObject
    /\ gmm_before = NoObject
    /\ gmm_again = NoObject
    /\ scale_impl = "none"
    /\ scale_args = [shift |-> Absent, scale |-> Absent, reverse |-> FALSE]

IdleGmm ==
    /\ data = <<>>
    /\ data_before = <<>>
    /\ n_components = <<>>
    /\ ndata_max = Absent
    /\ mg_pc = "idle"
    /\ mg_impl = "none"
    /\ mg_mode = "none"
    /\ next_chunk = 1
    /\ running = {}
    /\ value = <<>>
    /\ chunk_failed = FALSE
    /\ result = <<>>
    /\ fit_log = <<>>
    /\ out_of_order = FALSE

IdleKde ==
    /\ grid = [axes |-> 1, pts |-> <<>>]
    /\ kde_data = [axes |-> 1, pts |-> <<>>]
    /\ kde_args = [bandwidth |-> 1, norm |-> "none", absolute |-> FALSE, sampling |-> Absent]
    /\ kde_pc = "idle"
    /\ grid_split = <<>>
    /\ kde_next = 1
    /\ kde_running = {}
    /\ kde_value = <<>>
    /\ kde_order = FALSE
    /\ mp_concat = <<>>
    /\ kde_result = <<>>

IdleCombine ==
    /\ gmms = [container |-> "list", elems |-> <<>>]
    /\ weights = Absent
    /\ cmb_pc = "idle"
    /\ cmb_error = "none"
    /\ gmm_combined = NoCombined

IdleColor ==
    /\ cc_args = [magerr1 |-> <<>>, magerr2 |-> <<>>, magerr3 |-> <<>>, magerr4 |-> <<>>,
                  name1 |-> "", name2 |-> "", name3 |-> "", name4 |-> ""]
    /\ cc_pc = "idle"
    /\ cmatrix = <<>>

IdleAvg ==
    /\ values = <<>>
    /\ wa_weights = <<>>
    /\ wa_pc = "idle"
    /\ wa_result = [average |-> NaN, variance |-> NaN]

IdleSample ==
    /\ sxy_gmm = [means_ |-> <<>>, covariances_ |-> <<>>]
    /\ sxy_args = [impl |-> "none", caller |-> "none", kappa |-> 0, sampling |-> 0,
                   nmin |-> 0, nmax |-> 0]
    /\ sxy_pc = "idle"
    /\ nsamples = RInt(0)
    /\ sxy_len = 0

IdleCI ==
    /\ gmm_y = <<>>
    /\ ci_value = 0
    /\ level = 0
    /\ ci_pc = "idle"
    /\ ci_i = 0
    /\ value_idx = 0
    /\ lidx = 0
    /\ ridx = 0
    /\ integral = 0
    /\ ci_result = <<>>

IdleComp ==
    /\ gc_data = NoneItem
    /\ gc_max = 0
    /\ gc_pc = "idle"
    /\ gc_result = 0

IdleCovar ==
    /\ xi = <<>>
    /\ yi = <<>>
    /\ sc_pc = "idle"
    /\ sc_error = "none"
    /\ sc_result = Absent

IdleHeader ==
    /\ frame = <<>>
    /\ proj_code = <<>>
    /\ dh_pc = "idle"
    /\ dh_error = "none"
    /\ header = NoHeader

\* every function but `own` is at rest
Others(own) ==
    /\ IF own = "scale" THEN TRUE ELSE IdleScale
    /\ IF own = "gmm" THEN TRUE ELSE IdleGmm
    /\ IF own = "kde" THEN TRUE ELSE IdleKde
    /\ IF own = "combine" THEN TRUE ELSE IdleCombine
    /\ IF own = "color" THEN TRUE ELSE IdleColor
    /\ IF own = "avg" THEN TRUE ELSE IdleAvg
    /\ IF own = "sample" THEN TRUE ELSE IdleSample
    /\ IF own = "ci" THEN TRUE ELSE IdleCI
    /\ IF own = "comp" THEN TRUE ELSE IdleComp
    /\ IF own = "covar" THEN TRUE ELSE IdleCovar
    /\ IF own = "header" THEN TRUE ELSE IdleHeader

InitScale ==
    /\ \E mdl \in FittedModels :
         /\ heap = <<mdl.weights_, mdl.means_, mdl.covariances_, mdl.precisions_,
                     mdl.precisions_cholesky_>>
         /\ gmm_before = mdl
    /\ gmm_again = NoObject
    /\ gmm = [weights_ |-> 1, means_ |-> 2, covariances_ |-> 3, precisions_ |-> 4,
              precisions_cholesky_ |-> 5]
    /\ gmm_new = NoObject
    /\ scale_impl = "none"
    /\ scale_args = [shift |-> Absent, scale |-> Absent, reverse |-> FALSE]
    /\ Others("scale")

NextScale ==
    \/ \E impl \in {"gmm", "utils"}, shift \in ShiftValues, scale \in ScaleValues,
       reverse \in BOOLEAN :
        gmm_scale(impl, shift, scale, reverse)
    \/ gmm_scale_again

SpecScale == InitScale /\ [][NextScale]_vars

\* the data lists: every list of up to MaxItems entries, and lists just above the
\* pool threshold that hold one free entry, first or last, among skipped (None) ones
DataLists ==
    UNION {[1..k -> Items] : k \in 1..MaxItems} \cup
    {[i \in 1..(ParallelMin + 1) |-> IF i = p THEN it ELSE NoneItem] :
        it \in Items, p \in {1, ParallelMin + 1}}

InitGmm ==
    /\ data \in DataLists
    /\ data_before = data
    /\ n_components = <<>>
    /\ ndata_max = Absent
    /\ mg_pc = "ready"
    /\ mg_impl = "none"
    /\ mg_mode = "none"
    /\ next_chunk = 1
    /\ running = {}
    /\ value = <<>>
    /\ chunk_failed = FALSE
    /\ result = <<>>
    /\ fit_log = <<>>
    /\ out_of_order = FALSE
    /\ Others("gmm")

NextGmm ==
    \/ \E max_components \in 1..MaxComp, parallel \in BOOLEAN,
          nmax \in {Absent, <<MaxPts - 1>>} :
            mp_gmm(max_components, parallel, nmax)
    \/ mp_gmm_old
    \/ PoolTake
    \/ \E c \in running : PoolFinish(c)
    \/ PoolJoin

SpecGmm == InitGmm /\ [][NextGmm]_vars

GridValues == {0, 1, 3}
KdeDataSets == {<<1>>, <<0, 3>>}

InitKde ==
    /\ \E g \in 0..MaxGrid, axes \in {1, 2} :
         \E pts \in [1..g -> GridValues] : grid = [axes |-> axes, pts |-> pts]
    /\ \E pts \in KdeDataSets, axes \in {1, 2} : kde_data = [axes |-> axes, pts |-> pts]
    /\ kde_args = [bandwidth |-> 1, norm |-> "none", absolute |-> FALSE, sampling |-> Absent]
    /\ kde_pc = "ready"
    /\ grid_split = <<>>
    /\ kde_next = 1
    /\ kde_running = {}
    /\ kde_value = <<>>
    /\ kde_order = FALSE
    /\ mp_concat = <<>>
    /\ kde_result = <<>>
    /\ Others("kde")

NextKde ==
    \/ \E bandwidth \in {1, 2}, norm \in {"none", "max", "mean", "sum"},
          absolute \in BOOLEAN, sampling \in {Absent, <<2>>} :
            mp_kde(bandwidth, norm, absolute, sampling)
    \/ KdeTake
    \/ \E c \in kde_running : KdeFinish(c)
    \/ KdeJoin

SpecKde == InitKde /\ [][NextKde]_vars

\* the models handed to combine_gmms: k components with means base+1 .. base+k and
\* variances 1, 4, .. k^2
CombineModels ==
    {[isgmm |-> TRUE, weights_ |-> w, means_ |-> [i \in 1..Len(w) |-> RInt(base + i)],
      covariances_ |-> [i \in 1..Len(w) |-> RInt(i * i)]] :
        w \in UNION {WeightVectors(k) : k \in 1..MaxComp}, base \in {0, 1}}

InitCombine ==
    /\ \E n \in 0..MaxModels, container \in {"list", "tuple"} :
         \E elems \in [1..n -> CombineModels \cup {NotAModel}] :
            gmms = [container |-> container, elems |-> elems]
    /\ \/ weights = Absent
       \/ \E n \in 0..(MaxModels + 1) : \E w \in [1..n -> {0, 1, 2}] : weights = <<w>>
    /\ cmb_pc = "ready"
    /\ cmb_error = "none"
    /\ gmm_combined = NoCombined
    /\ Others("combine")

NextCombine == combine_gmms

SpecCombine == InitCombine /\ [][NextCombine]_vars

ErrArrays == {<<1>>, <<1, 2>>, <<3>>}
BandNames == {"J", "H", "K"}

InitColor ==
    /\ cc_args \in [magerr1 : ErrArrays, magerr2 : ErrArrays, magerr3 : ErrArrays,
                     magerr4 : ErrArrays, name1 : BandNames, name2 : BandNames,
                     name3 : BandNames, name4 : BandNames]
    /\ cc_pc = "ready"
    /\ cmatrix = <<>>
    /\ Others("color")

NextColor == get_color_covar

SpecColor == InitColor /\ [][NextColor]_vars

InitAvg ==
    /\ \E n \in 1..MaxVals :
         /\ values \in [1..n -> {NaN, RInt(1), RInt(3)}]
         /\ wa_weights \in [1..n -> {NaN, RInt(1), RInt(2)}]
    /\ wa_pc = "ready"
    /\ wa_result = [average |-> NaN, variance |-> NaN]
    /\ Others("avg")

NextAvg == weighted_avg

SpecAvg == InitAvg /\ [][NextAvg]_vars

SampleModels ==
    UNION {{[means_ |-> m, covariances_ |-> c] :
               m \in [1..k -> MeanValues], c \in [1..k -> Variances]} : k \in 1..MaxComp}

\* the defaults, narrower and wider windows, and the call of
\* gmm_confidence_interval_value (kappa=5, sampling=100, nmin=1000, nmax=100000)
SampleCalls ==
    {[impl |-> im, caller |-> "user", kappa |-> k, sampling |-> sa,
      nmin |-> w[1], nmax |-> w[2]] :
        im \in {"gmm", "utils"}, k \in {3, 5}, sa \in {10, 100},
        w \in {<<100, 100000>>, <<10, 50>>, <<200, 200>>, <<1000, 100000>>}}
    \cup
    {[impl |-> im, caller |-> "gmm_confidence_interval_value", kappa |-> 5,
      sampling |-> 100, nmin |-> 1000, nmax |-> 100000] : im \in {"gmm", "utils"}}

InitSample ==
    /\ sxy_gmm \in SampleModels
    /\ sxy_args \in SampleCalls
    /\ sxy_pc = "ready"
    /\ nsamples = RInt(0)
    /\ sxy_len = 0
    /\ Others("sample")

NextSample == \E numpy \in {"truncates", "raises"} : gmm_sample_xy(numpy)

SpecSample == InitSample /\ [][NextSample]_vars

Levels == {2, 6, 100}

InitCI ==
    /\ \E n \in 2..MaxSamples :
         /\ gmm_y \in [1..n -> 0..MaxDensity]
         /\ ci_value \in (0 - GridStep - 1)..(n * GridStep + 1)
    /\ level \in Levels
    /\ ci_pc = "ready"
    /\ ci_i = 0
    /\ value_idx = 0
    /\ lidx = 0
    /\ ridx = 0
    /\ integral = 0
    /\ ci_result = <<>>
    /\ Others("ci")

NextCI == ci_begin \/ ci_iterate \/ ci_return

SpecCI == InitCI /\ [][NextCI]_vars

\* the function runs in one thread that keeps executing until it returns
SpecCIFair == InitCI /\ [][NextCI]_vars /\ WF_vars(NextCI)

InitComp ==
    /\ gc_data \in {NoneItem} \cup {Vector(n) : n \in 0..MaxLength}
    /\ gc_max \in 1..MaxComponents
    /\ gc_pc = "ready"
    /\ gc_result = 0
    /\ Others("comp")

NextComp == gmm_components_call

SpecComp == InitComp /\ [][NextComp]_vars

CovarValues == {NaN, PosInf, NegInf, RInt(0), RInt(2)}

InitCovar ==
    /\ \E n \in 0..MaxCovar : xi \in [1..n -> CovarValues]
    /\ \E n \in 0..MaxCovar : yi \in [1..n -> CovarValues]
    /\ sc_pc = "ready"
    /\ sc_error = "none"
    /\ sc_result = Absent
    /\ Others("covar")

NextCovar == get_sample_covar

SpecCovar == InitCovar /\ [][NextCovar]_vars

\* a word in every mix of upper and lower case
CaseVariants(w) ==
    {[i \in 1..Len(w) |-> IF i \in S THEN UpperCase[w[i]] ELSE w[i]] :
        S \in SUBSET (1..Len(w))}

FrameValues ==
    CaseVariants(<<"i", "c", "r", "s">>) \cup
    CaseVariants(<<"g", "a", "l", "a", "c", "t", "i", "c">>) \cup
    CaseVariants(<<"f", "k">>) \cup
    {<<>>, <<"i", "c", "r", "s", " ">>, <<"g", "a", "l">>, <<"G", "A", "L">>,
     <<"e", "q", "u">>, <<"i", "c", "r">>, <<"I", "C", "R", "S", "2">>}

ProjCodes == {<<"T", "A", "N">>, <<"C", "A", "R">>}

InitHeader ==
    /\ frame \in FrameValues
    /\ proj_code \in ProjCodes
    /\ dh_pc = "ready"
    /\ dh_error = "none"
    /\ header = NoHeader
    /\ Others("header")

NextHeader == data2header

SpecHeader == InitHeader /\ [][NextHeader]_vars

(***************************************************************************)
(* Claims.                                                                 *)
(***************************************************************************)

\* the returned model shares no array with the input model
NoSharedArray == \A a \in Attrs, b \in Attrs : gmm_new[a] # gmm[b]

\* C1: gmm_scale never mutates its input model: for every shift, scale and
\* reverse, the input model's weights, means, covariances, precisions and
\* precision-Cholesky values after the call equal their values before the call
\* (the claim adds that the returned model shares no array with the input, which
\* NoSharedArray states; the code breaks that as well).
C1_InputNotMutated ==
    gmm_new # NoObject => Values(heap, gmm) = gmm_before

\* C2: in mp_gmm, sequential or with worker processes, the result entry of an item
\* whose input vector is None, and of an item whose fit did not converge, is
\* None: a non-converged model is never returned.
C2_NoneForSkippedAndNonConverged ==
    mg_pc = "returned" =>
        \A i \in 1..Len(result) :
            (data[i].none \/ fit_log[i] = "noconv") => result[i] = NoneResult

\* C3: in mp_gmm a fit that raises an error is caught for its item alone; the
\* batch completes and the error is never propagated to the caller.
C3_ErrorNotPropagated == mg_pc # "raised"

\* C4: mp_gmm (utils/gmm.py) returns a list with exactly one entry per input
\* vector, and entry i is the outcome of fitting vector i (as handed to the fit)
\* with the component count computed for vector i, whatever the order in which
\* the worker processes finish.
C4_ResultOrder ==
    (mg_impl = "gmm" /\ mg_pc = "returned") =>
        /\ Len(result) = Len(data_before)
        /\ \E mc \in 1..MaxComp :
             \A i \in 1..Len(data) : n_components[i] = gmm_components(data_before[i], mc)
        /\ \A i \in 1..Len(data) :
             IF data[i].none
             THEN result[i] = NoneResult
             ELSE /\ fit_log[i] \in {"conv", "noconv"}
                  /\ \/ result[i] = Model(fit_log[i] = "conv", data[i], n_components[i])
                     \/ /\ result[i] = NoneResult
                        /\ fit_log[i] = "noconv"
                        /\ mg_mode = "parallel"

\* C4 witness: the pool returned a fitted model although chunks finished out of order
C4_Witness ==
    /\ mg_impl = "gmm"
    /\ mg_pc = "returned"
    /\ mg_mode = "parallel"
    /\ out_of_order
    /\ \E i \in 1..Len(result) : result[i].kind = "model"

\* the sections are contiguous, in grid order, and cover the grid exactly once
ContiguousSplit ==
    /\ Len(grid_split) = NProc
    /\ Concat(grid_split) = grid.pts

CombineWellFormed ==
    /\ gmms.container = "list"
    /\ gmms.elems # <<>>
    /\ \A i \in 1..Len(gmms.elems) : gmms.elems[i].isgmm
    /\ weights # Absent =>
          /\ Len(weights[1]) = Len(gmms.elems)
          /\ \E i \in 1..Len(weights[1]) : weights[1][i] > 0

CombinationWeight(i) == IF weights = Absent THEN 1 ELSE weights[1][i]
TotalWeight == SumSeq([i \in 1..Len(gmms.elems) |-> CombinationWeight(i)])
\* the index in the combined model of component c of model i
Offset(i) == SumSeq([j \in 1..(i - 1) |-> Len(gmms.elems[j].means_)])

C7_DiagonalIsSumOfSquares ==
    cc_pc = "returned" =>
        /\ cmatrix[1][1] = RAdd(Square(Mean(cc_args.magerr1)), Square(Mean(cc_args.magerr2)))
        /\ cmatrix[2][2] = RAdd(Square(Mean(cc_args.magerr3)), Square(Mean(cc_args.magerr4)))

\* the entries whose value and weight are both non-NaN, as (value, weight) pairs
RECURSIVE KeptFrom(_)
KeptFrom(i) ==
    IF i > Len(values) THEN <<>>
    ELSE IF values[i] # NaN /\ wa_weights[i] # NaN
         THEN <<<<values[i], wa_weights[i]>>>> \o KeptFrom(i + 1)
         ELSE KeptFrom(i + 1)
Kept == KeptFrom(1)
KeptWeight == RSum([i \in 1..Len(Kept) |-> Kept[i][2]])
KeptMean ==
    FDiv(RSum([i \in 1..Len(Kept) |-> RMul(Kept[i][1], Kept[i][2])]), KeptWeight)
KeptVariance ==
    FDiv(RSum([i \in 1..Len(Kept) |->
                 FMul(FMul(FSub(Kept[i][1], KeptMean), FSub(Kept[i][1], KeptMean)),
                      Kept[i][2])]),
         KeptWeight)

\* C8: weighted_avg ignores every entry whose value or weight is NaN: the mean and
\* the variance it returns equal those computed on only the entries whose value
\* and weight are both non-NaN.
C8_NaNEntriesIgnored ==
    wa_pc = "returned" =>
        /\ wa_result.average = KeptMean
        /\ wa_result.variance = KeptVariance

\* C9: for every model and every kappa, sampling, nmin and nmax with
\* nmin <= nmax, the number of sample points gmm_sample_xy uses lies within
\* [nmin, nmax], the call made by gmm_confidence_interval_value included.
C9_SampleCountWithinLimits ==
    sxy_pc = "returned" =>
        /\ sxy_args.nmin <= sxy_len
        /\ sxy_len <= sxy_args.nmax

\* the two distances reached by the last iteration
LeftReach == ci_value - gmm_x(lidx)
RightReach == gmm_x(ridx) - ci_value

\* C10: gmm_confidence_interval_value returns an interval (lo, hi) symmetric
\* around value whose half-width is the larger of the two distances reached,
\* max(value - x[lidx], x[ridx] - value), for every value, also one that is not
\* a sample point or lies outside the sampled range.
C10_HalfWidthIsLargerReach ==
    ci_pc = "returned" =>
        /\ ci_value - ci_result[1] = ci_result[2] - ci_value
        /\ ci_result[2] - ci_value =
               IF LeftReach > RightReach THEN LeftReach ELSE RightReach

\* an integer nearest to n / n_per_component (either neighbour at a tie)
Nearest(n) == {r \in 0..n : Abs(n_per_component * r - n) * 2 <= n_per_component}
Clamp(r, lo, hi) == IF r > hi THEN hi ELSE IF r < lo THEN lo ELSE r

\* C11: the component count for a vector of n points is round(n / 20) clamped to
\* [1, max_components], an integer between 1 and max_components, and it is None
\* exactly when the vector is None.
C11_ComponentCount ==
    gc_pc = "returned" =>
        /\ (gc_result = 0) <=> gc_data.none
        /\ ~gc_data.none =>
              /\ gc_result \in 1..gc_max
              /\ \E r \in Nearest(Len(gc_data.pts)) : gc_result = Clamp(r, 1, gc_max)

\* C11 witness: a vector whose rounded count exceeds max_components and is cut
\* down to it
C11_Witness ==
    /\ gc_pc = "returned"
    /\ ~gc_data.none
    /\ RoundHalfEven(Len(gc_data.pts), n_per_component) > gc_max
    /\ gc_result = gc_max

ShiftApplied == IF scale_args.shift = Absent THEN RInt(0) ELSE scale_args.shift
ScaleApplied == IF scale_args.scale = Absent THEN RInt(1) ELSE scale_args.scale
Returned == Values(heap, gmm_new)

\* C13 (the state in which the call has returned): gmm_scale with shift s, scale c and reverse r returns a model whose
\* weights equal the input's, whose means are (mean + s) / c, negated exactly
\* when r is true, whose covariances are covariance / c^2 and whose precisions
\* are the inverse of the returned covariances.
C13_ScaledValues ==
    (gmm_new # NoObject /\ gmm_again = NoObject) =>
        /\ Returned.weights_ = gmm_before.weights_
        /\ Returned.means_ =
              [j \in 1..Len(gmm_before.means_) |->
                  LET m == RDiv(RAdd(gmm_before.means_[j], ShiftApplied), ScaleApplied)
                  IN  IF scale_args.reverse THEN RNeg(m) ELSE m]
        /\ Returned.covariances_ =
              [j \in 1..Len(gmm_before.covariances_) |->
                  RDiv(gmm_before.covariances_[j], RMul(ScaleApplied, ScaleApplied))]
        /\ Returned.precisions_ =
              [j \in 1..Len(gmm_before.covariances_) |->
                  RDiv(RInt(1), Returned.covariances_[j])]

\* C13 witness: a call with a shift, a scale other than 1 and a reversal on a
\* model one of whose means ends up non-zero
C13_Witness ==
    /\ gmm_new # NoObject
    /\ gmm_again = NoObject
    /\ scale_args = [shift |-> RInt(1), scale |-> RInt(2), reverse |-> TRUE]
    /\ \E j \in 1..Len(Returned.means_) : Returned.means_[j] # RInt(0)

\* means, covariances and weights of model object obj
Parameters(obj) ==
    [a \in {"means_", "covariances_", "weights_"} |-> Values(heap, obj)[a]]
InputParameters ==
    [a \in {"means_", "covariances_", "weights_"} |-> gmm_before[a]]

BandName(i) == <<cc_args.name1, cc_args.name2, cc_args.name3, cc_args.name4>>[i]
BandError(i) ==
    Mean(<<cc_args.magerr1, cc_args.magerr2, cc_args.magerr3, cc_args.magerr4>>[i])
BandPairs == <<<<1, 3, 1>>, <<1, 4, -1>>, <<2, 3, -1>>, <<2, 4, 1>>>>
SharedPairs == {k \in 1..4 : BandName(BandPairs[k][1]) = BandName(BandPairs[k][2])}
CrossTerm ==
    RSum([k \in 1..4 |->
            IF k \in SharedPairs
            THEN RMul(RInt(BandPairs[k][3]),
                      RMul(BandError(BandPairs[k][1]), BandError(BandPairs[k][2])))
            ELSE RInt(0)])

\* C15: the off-diagonal term of get_color_covar is the sum, over the pairs of
\* one band of each color with the same identifier, of mean(err_i)*mean(err_j),
\* added for equal positions and subtracted for opposite positions; it is 0
\* when no identifier is shared, and the matrix is symmetric.
C15_OffDiagonal ==
    cc_pc = "returned" =>
        /\ cmatrix[1][2] = CrossTerm
        /\ cmatrix[1][2] = cmatrix[2][1]
        /\ SharedPairs = {} => cmatrix[1][2] = RInt(0)

\* C15 witness: only bands in opposite positions share a name, the term is negative
C15_Witness ==
    /\ cc_pc = "returned"
    /\ cc_args.name1 = cc_args.name4
    /\ cc_args.name1 # cc_args.name3
    /\ cc_args.name2 # cc_args.name4
    /\ cmatrix[1][2][1] < 0

\* C16: mp_gmm does not mutate its input: after the call the caller's data
\* collection holds the same vectors, with the same points, as before the call,
\* for every data and every ndata_max.
C16_DataNotMutated ==
    mg_pc \in {"returned", "raised"} => data = data_before

\* the two calls mp_kde refuses
KdeBadCall ==
    \/ kde_args.absolute /\ kde_args.sampling = Absent
    \/ grid.axes # kde_data.axes

\* C17: mp_kde raises a ValueError when absolute is true and no sampling factor
\* is given, and when grid and data differ in their number of axes; the error
\* comes before the grid is split and before any worker is started, and no
\* density is returned.
C17_KdeValueErrors ==
    (kde_pc \notin {"idle", "ready"} /\ KdeBadCall) =>
        /\ kde_pc = "raised"
        /\ grid_split = <<>>
        /\ kde_next = 1
        /\ kde_running = {}
        /\ kde_value = <<>>
        /\ mp_concat = <<>>
        /\ kde_result = <<>>

\* C17 witness: a call with absolute=True and no sampling, on a grid and data of
\* the same number of axes, has raised
C17_Witness ==
    /\ kde_pc = "raised"
    /\ kde_args.absolute
    /\ kde_args.sampling = Absent
    /\ grid.axes = kde_data.axes
    /\ Len(grid.pts) > 0

\* the argument is a list and holds mixture models only
OnlyModelsInList ==
    /\ gmms.container = "list"
    /\ \A i \in 1..Len(gmms.elems) : gmms.elems[i].isgmm

\* C18: combine_gmms raises a ValueError for every argument that is not a list
\* and for every list holding an element that is not a mixture model, before
\* any combined model is built; a list of mixture models only does not fail
\* with that error.
C18_CombineValueErrors ==
    cmb_pc \notin {"idle", "ready"} =>
        IF OnlyModelsInList
        THEN cmb_error # "ValueError"
        ELSE /\ cmb_pc = "raised"
             /\ cmb_error = "ValueError"
             /\ gmm_combined = NoCombined

\* C18 witness: a list that holds a model and something else has been refused
C18_Witness ==
    /\ cmb_pc = "raised"
    /\ cmb_error = "ValueError"
    /\ gmms.container = "list"
    /\ \E i, j \in 1..Len(gmms.elems) : gmms.elems[i].isgmm /\ ~gmms.elems[j].isgmm

\* C19: get_sample_covar raises a ValueError when xi and yi differ in length and
\* when either array holds a non-finite value; the length check comes first, so
\* inputs that violate both report the size mismatch, and no covariance is
\* returned in either case.
C19_CovarValueErrors ==
    sc_pc \notin {"idle", "ready"} =>
        /\ Len(xi) # Len(yi) =>
              sc_pc = "raised" /\ sc_error = "size" /\ sc_result = Absent
        /\ (Len(xi) = Len(yi) /\ (HasNonFinite(xi) \/ HasNonFinite(yi))) =>
              sc_pc = "raised" /\ sc_error = "nan" /\ sc_result = Absent

\* C19 witness: arrays of different lengths, one with a NaN, refused for their sizes
C19_Witness ==
    /\ sc_pc = "raised"
    /\ sc_error = "size"
    /\ Len(xi) # Len(yi)
    /\ \E i \in 1..Len(xi) : xi[i] = NaN

\* C20: data2header selects the equatorial axis codes when frame equals "icrs"
\* and the galactic axis codes when frame equals "galactic" (compared without
\* regard to case), and for every other frame raises a ValueError and returns
\* no header.
C20_FrameSelection ==
    dh_pc \notin {"idle", "ready"} =>
        IF frame \in CaseVariants(<<"i", "c", "r", "s">>)
        THEN /\ dh_pc = "returned"
             /\ header.ctype1 = <<"R", "A", "-", "-", "-">> \o proj_code
             /\ header.ctype2 = <<"D", "E", "C", "-", "-">> \o proj_code
        ELSE IF frame \in CaseVariants(<<"g", "a", "l", "a", "c", "t", "i", "c">>)
        THEN /\ dh_pc = "returned"
             /\ header.ctype1 = <<"G", "L", "O", "N", "-">> \o proj_code
             /\ header.ctype2 = <<"G", "L", "A", "T", "-">> \o proj_code
        ELSE /\ dh_pc = "raised"
             /\ dh_error = "ValueError"
             /\ header = NoHeader

\* C20 witness: a header with galactic axis codes for a frame written in mixed case
C20_Witness ==
    /\ dh_pc = "returned"
    /\ frame = <<"G", "a", "l", "a", "c", "t", "i", "c">>
    /\ header.ctype1[1] = "G"

\* the window of step j: j indices to each side of value_idx, cut at the
\* ends of the grid
WindowLeft(j) == IF value_idx - j >= 0 THEN value_idx - j ELSE 0
WindowRight(j) ==
    IF value_idx + j < Len(gmm_y) THEN value_idx + j ELSE Len(gmm_y) - 1
\* its summed left and right trapezoid mass
WindowMass(j) ==
    Trapz(WindowLeft(j), value_idx) + Trapz(value_idx, WindowRight(j))

\* C21 as stated: the loop grows the window by one index on each side per step
\* and stops at the first window whose summed mass exceeds level: on return
\* the mass of the final window exceeds level and the mass of every smaller
\* window tried before it did not, for every level.
C21_FinalWindowExceedsLevel ==
    ci_pc = "returned" =>
        /\ integral > level
        /\ \A j \in 0..(ci_i - 1) : WindowMass(j) <= level

\* C21 as amended: when the loop is left, the window is the one of the last
\* step, no window tried before it exceeded level, and its own mass exceeds
\* level unless it is the last of the len(gmm_x) windows.
C21_FirstExceedingOrLastWindow ==
    ci_pc \in {"chosen", "returned"} =>
        /\ lidx = WindowLeft(ci_i)
        /\ ridx = WindowRight(ci_i)
        /\ integral = WindowMass(ci_i)
        /\ \A j \in 0..(ci_i - 1) : WindowMass(j) <= level
        /\ integral > level \/ ci_i = Len(gmm_y) - 1

\* C21 witness: the loop stopped early, at its third window, on a mass above level
C21_Witness ==
    /\ ci_pc = "returned"
    /\ integral > level
    /\ ci_i = 2
    /\ ci_i < Len(gmm_y) - 1

\* at least one step of the loop has been made
Stepped == (ci_pc = "loop" /\ ci_i >= 1) \/ ci_pc \in {"chosen", "returned"}

\* C22: the search loop always terminates after at most len(gmm_x) steps, also
\* when level is never exceeded; in every step
\* 0 <= lidx <= value_idx <= ridx <= len(gmm_x) - 1, and neither lidx increases
\* nor ridx decreases from one step to the next.
C22_LoopTerminatesInBounds ==
    /\ [](ci_i < Len(gmm_y))
    /\ [](Stepped => (0 <= lidx /\ lidx <= value_idx /\ value_idx <= ridx
                        /\ ridx <= Len(gmm_y) - 1))
    /\ [][Stepped => (lidx' <= lidx /\ ridx' >= ridx)]_vars
    /\ <>(ci_pc = "returned")

\* C22 witness: level was never exceeded and the loop ended after len(gmm_x)
\* steps, its window cut at both ends of the grid
C22_Witness ==
    /\ ci_pc = "returned"
    /\ integral <= level
    /\ ci_i = Len(gmm_y) - 1
    /\ 0 < value_idx
    /\ value_idx < Len(gmm_y) - 1
    /\ lidx = 0
    /\ ridx = Len(gmm_y) - 1

\* a list of models and a weights list of another length, neither empty
WeightsOfOtherLength ==
    /\ OnlyModelsInList
    /\ gmms.elems # <<>>
    /\ weights # Absent
    /\ Len(weights[1]) >= 1
    /\ Len(weights[1]) # Len(gmms.elems)
\* the number of models that have a weight
Weighted ==
    IF Len(weights[1]) < Len(gmms.elems) THEN Len(weights[1]) ELSE Len(gmms.elems)

\* C23: given a weights list with fewer entries than there are models (but at
\* least one), combine_gmms raises no error and the components of every model
\* at an index >= len(weights) are absent from the result, whose component count
\* is the sum over the first len(weights) models only; weights beyond the number
\* of models are ignored.
C23_ShortWeights ==
    (cmb_pc \notin {"idle", "ready"} /\ WeightsOfOtherLength) =>
        /\ cmb_pc = "returned"
        /\ cmb_error = "none"
        /\ Len(gmm_combined.means_) = Offset(Weighted + 1)
        /\ Len(gmm_combined.covariances_) = Offset(Weighted + 1)
        /\ Len(gmm_combined.weights_) = Offset(Weighted + 1)
        /\ \A i \in 1..Weighted : \A c \in 1..Len(gmms.elems[i].means_) :
              /\ gmm_combined.means_[Offset(i) + c] = gmms.elems[i].means_[c]
              /\ gmm_combined.covariances_[Offset(i) + c] = gmms.elems[i].covariances_[c]

\* C23 witness: two models and one weight; the result holds the first model only
C23_Witness ==
    /\ cmb_pc = "returned"
    /\ OnlyModelsInList
    /\ Len(gmms.elems) = 2
    /\ weights # Absent
    /\ Len(weights[1]) = 1
    /\ gmm_combined.means_ = gmms.elems[1].means_

====
